---- MODULE Spec2Model ----
(***************************************************************************)
(* telecom-tools-api.                                                      *)
(* Tower recommendation engine (Spec, SpecScore, SpecMeridian):            *)
(*   app/services/recommendation_engine.py   (clustering, scoring, ranking)*)
(*   app/api/v1/endpoints/recommendations.py (POST /recommendations/towers)*)
(*   app/schemas/recommendation.py           (request / response schemas)  *)
(* RF calculations (SpecRF): app/services/rf_calculations.py               *)
(* Coverage analysis (SpecPolygon, SpecCoverage):                          *)
(*   app/services/coverage_analysis.py       (grid, point tests, signal)   *)
(*   app/api/v1/endpoints/analysis.py        (POST /analysis/coverage-heatmap) *)
(* Every behaviour is one call: Init chooses the arguments (and the towers *)
(* table), one action per entry point runs it.  Two specifications run a   *)
(* call statement by statement: SpecInterleaved (the calls of the services *)
(* the async endpoints can have in progress together) and SpecGrid,        *)
(* SpecGridFair (the while loops of generate_grid).                        *)
(*                                                                         *)
(* Fixed-point units (the code uses Python floats):                        *)
(*   latitude, longitude : micro-degrees (1e-6 degree)                     *)
(*   area_km2            : 1e-3 km2                                        *)
(*   score               : 1e-5                                            *)
(*   distances           : metres                                          *)
(* Gaps of the model lie on the equator (latitude 0), where the haversine  *)
(* formula reduces to EARTH_RADIUS_KM times the wrapped longitude          *)
(* difference in radians.                                                  *)
(***************************************************************************)
EXTENDS Integers, Sequences, FiniteSets, TLC

VARIABLES
    request,          \* the arguments of the call, or the body of the HTTP request
    pc,               \* "ready", then the name of the entry point that ran
    outcome,          \* "none", "returned", "raised" or "http"
    clusters,         \* what cluster_gaps returned
    recommendations,  \* what generate_recommendations returned
    response,         \* the HTTP response of an endpoint
    engine_calls,     \* number of runs of the recommendation engine
    result,           \* what a direct call of an RF or coverage function returned
    towers,           \* the rows of the towers table
    calls             \* the frames of the invocations in progress, one per call

vars == <<request, pc, outcome, clusters, recommendations, response, engine_calls,
          result, towers, calls>>

----------------------------------------------------------------------------
(* Units *)

CoordScale == 1000000

AreaScale == 1000

ScoreScale == 100000

(* Program constants *)

CLUSTERING_RADIUS_KM == 2

EARTH_RADIUS_KM == 6371

POPULATION_DENSITY_PER_KM2 == 500

MAX_GAP_ZONES == 1000

MAX_RECOMMENDATIONS_GE == 1

MAX_RECOMMENDATIONS_LE == 20

SCORE_CAP == 10

\* int(500 * pi * 3.5^2): population of one typical coverage footprint
TYPICAL_POPULATION == 19242

\* pi * 3.5^2 km2 = 38.4845 km2, in 1e-3 km2 rounded down
TYPICAL_COVERAGE_AREA == 38484

\* metres per 1e-3 degree of arc: 6371000 * pi / 180000 = 111.195 m
MILLIMETRES_PER_MICRODEGREE == 111195

----------------------------------------------------------------------------
(* Arithmetic helpers *)

Abs(x) == IF x < 0 THEN 0 - x ELSE x

Min(a, b) == IF a <= b THEN a ELSE b

\* a / b rounded to the nearest integer (b > 0)
RoundDiv(a, b) == (2 * a + b) \div (2 * b)

\* sum of s[lo..hi], by halves
RECURSIVE SumRange(_, _, _)
SumRange(s, lo, hi) ==
    IF lo > hi THEN 0
    ELSE IF lo = hi THEN s[lo]
    ELSE LET mid == (lo + hi) \div 2
         IN  SumRange(s, lo, mid) + SumRange(s, mid + 1, hi)

SumSeq(s) == SumRange(s, 1, Len(s))

\* least element of a non-empty set of integers
MinOf(S) == CHOOSE x \in S : \A y \in S : x <= y

----------------------------------------------------------------------------
(* PriorityLevel *)

PriorityLevel == {"high", "medium", "low"}

(* RecommendationEngine.haversine_distance, in metres, rounded up.         *)
(* a = sin^2(dlat/2) + cos(lat1) cos(lat2) sin^2(dlng/2) is periodic in    *)
(* dlng; on one great circle c = 2 asin(sqrt(a)) is the wrapped arc.       *)
haversine_distance(lat1, lng1, lat2, lng2) ==
    LET dlat == Abs(lat2 - lat1)
        dl   == Abs(lng2 - lng1) % (360 * CoordScale)
        dlng == IF dl > 180 * CoordScale THEN 360 * CoordScale - dl ELSE dl
        arc  == IF dlng = 0 THEN dlat ELSE dlng
        q    == arc \div 1000
        r    == arc % 1000
    IN  q * (MILLIMETRES_PER_MICRODEGREE \div 1000)
        + (q * (MILLIMETRES_PER_MICRODEGREE % 1000)
           + (r * MILLIMETRES_PER_MICRODEGREE) \div 1000 + 999) \div 1000

----------------------------------------------------------------------------
(* GapZone: a dataclass of three floats *)
GapZone(lat, lng, area) == [latitude |-> lat, longitude |-> lng, area_km2 |-> area]

\* cluster_gaps line 116: distance <= radius_km
within_radius(distance, radius_km) == distance <= radius_km * 1000

\* cluster_gaps lines 112-115: the distance to gaps[j] is taken from `gap`,
\* the seed gaps[i] of the cluster being formed
reference_gap_previous(gaps, i, j) == gaps[j - 1]

reference_gap(gaps, i, j) == gaps[i]

\* cluster_gaps line 111: only gaps not assigned to a cluster are candidates
is_candidate_any(j, assigned) == TRUE

is_candidate(j, assigned) == j \notin assigned

(* cluster_gaps lines 110-118: the inner loop, restricted to j in lo..hi.  *)
(* The test on j reads the seed and the indices assigned before the loop   *)
(* (the loop itself adds only j), so the members are the indices that pass *)
(* it, in increasing order.  A cluster is the list of the indices of its   *)
(* members: the code appends the object gaps[j] itself and adds j to       *)
(* `assigned`.                                                             *)
RECURSIVE absorb(_, _, _, _, _, _)
absorb(gaps, radius_km, i, lo, hi, assigned) ==
    IF lo > hi THEN <<>>
    ELSE IF lo = hi
    THEN LET ref == reference_gap(gaps, i, lo)
             distance == haversine_distance(ref.latitude, ref.longitude,
                                            gaps[lo].latitude, gaps[lo].longitude)
         IN  IF is_candidate(lo, assigned) /\ within_radius(distance, radius_km)
             THEN <<lo>> ELSE <<>>
    ELSE LET mid == (lo + hi) \div 2
         IN  absorb(gaps, radius_km, i, lo, mid, assigned)
             \o absorb(gaps, radius_km, i, mid + 1, hi, assigned)

(* cluster_gaps lines 101-121: the outer loop; the iterations that         *)
(* `continue` are skipped by taking the first index not yet assigned       *)
RECURSIVE cluster_loop(_, _, _, _)
cluster_loop(gaps, radius_km, assigned, acc) ==
    LET free == { k \in 1..Len(gaps) : k \notin assigned }
    IN  IF free = {} THEN acc
        ELSE LET i == MinOf(free)
                 current == <<i>> \o absorb(gaps, radius_km, i, i + 1, Len(gaps),
                                            assigned \cup {i})
             IN  cluster_loop(gaps, radius_km,
                              assigned \cup { current[k] : k \in 1..Len(current) },
                              Append(acc, current))

(* RecommendationEngine.cluster_gaps: element c of the result is the       *)
(* cluster with cluster_id c - 1                                           *)
cluster_gaps(gaps, radius_km) ==
    IF gaps = <<>> THEN <<>>
    ELSE cluster_loop(gaps, radius_km, {}, <<>>)

\* the GapZone objects of one cluster
cluster_members(gaps, cluster) == [k \in 1..Len(cluster) |-> gaps[cluster[k]]]

(* RecommendationEngine.calculate_cluster_centroid *)
calculate_cluster_centroid(members) ==
    IF members = <<>> THEN <<0, 0, 0>>
    ELSE LET n == Len(members)
             avg_lat == RoundDiv(SumSeq([k \in 1..n |-> members[k].latitude]), n)
             avg_lng == RoundDiv(SumSeq([k \in 1..n |-> members[k].longitude]), n)
             total_area == SumSeq([k \in 1..n |-> members[k].area_km2])
         IN  <<avg_lat, avg_lng, total_area>>

(* RecommendationEngine.calculate_priority *)
calculate_priority(score) ==
    IF score > 5 * ScoreScale THEN "high"
    ELSE IF score >= 2 * ScoreScale THEN "medium"
    ELSE "low"

(* RecommendationEngine.estimate_population_reached:                       *)
(* int(density * T * min(area / T, 1)) for area > 0, int(density * T)      *)
(* otherwise, with T = pi * 3.5^2                                          *)
estimate_population_reached(area_km2) ==
    IF area_km2 > 0
    THEN IF area_km2 <= TYPICAL_COVERAGE_AREA
         THEN (POPULATION_DENSITY_PER_KM2 * area_km2) \div AreaScale
         ELSE TYPICAL_POPULATION
    ELSE TYPICAL_POPULATION

(* generate_recommendations lines 204-206 *)
cluster_score_uncapped(total_area) ==
    LET population_factor == POPULATION_DENSITY_PER_KM2 \div 100
    IN  (total_area * population_factor * 10 * (ScoreScale \div AreaScale)) \div 1000

cluster_score(total_area) ==
    LET population_factor == POPULATION_DENSITY_PER_KM2 \div 100
        score == (total_area * population_factor * 10 * (ScoreScale \div AreaScale)) \div 1000
    IN  Min(score, SCORE_CAP * ScoreScale)

(* the format {total_area:.2f} of line 215: the area in 1e-2 km2.  An area  *)
(* half way between two 2-decimal values is printed as either, depending   *)
(* on the float that stores it, so the result is the set of the possible   *)
(* renderings                                                              *)
format_2f(area_km2) ==
    LET q == area_km2 \div (AreaScale \div 100)
        r == area_km2 % (AreaScale \div 100)
    IN  IF 2 * r < AreaScale \div 100 THEN {q}
        ELSE IF 2 * r > AreaScale \div 100 THEN {q + 1}
        ELSE {q, q + 1}

(* generate_recommendations lines 198-228: the Recommendation of one       *)
(* cluster; reason is the pair (gap count, renderings of the total area)   *)
(* of the text "<n> gap(s) covering <area> km2"                            *)
make_recommendation(gaps, cluster, cluster_id) ==
    LET members == cluster_members(gaps, cluster)
        centroid == calculate_cluster_centroid(members)
        total_area == centroid[3]
        score == cluster_score(total_area)
    IN  [latitude |-> centroid[1],
         longitude |-> centroid[2],
         score |-> score,
         priority |-> calculate_priority(score),
         population_reached |-> estimate_population_reached(total_area),
         cluster_id |-> cluster_id,
         reason |-> <<Len(cluster), format_2f(total_area)>>,
         gap_count |-> Len(cluster)]

\* generate_recommendations lines 231-233
priority_order(p) == IF p = "high" THEN 0 ELSE IF p = "medium" THEN 1 ELSE 2

sort_key_ascending(r) == <<priority_order(r.priority), r.score>>

sort_key(r) == <<priority_order(r.priority), 0 - r.score>>

\* the comparison with < for <=: an unstable sort
key_lt(a, b) == a[1] < b[1] \/ (a[1] = b[1] /\ a[2] < b[2])

\* tuple comparison of two sort keys
key_le(a, b) == a[1] < b[1] \/ (a[1] = b[1] /\ a[2] <= b[2])

\* list.sort is stable: r goes after every element whose key is <= its own
RECURSIVE insert_sorted(_, _)
insert_sorted(sorted, r) ==
    IF sorted = <<>> THEN <<r>>
    ELSE IF key_le(sort_key(Head(sorted)), sort_key(r))
         THEN <<Head(sorted)>> \o insert_sorted(Tail(sorted), r)
         ELSE <<r>> \o sorted

RECURSIVE sort_recommendations(_)
sort_recommendations(recs) ==
    IF recs = <<>> THEN <<>>
    ELSE insert_sorted(sort_recommendations(SubSeq(recs, 1, Len(recs) - 1)),
                       recs[Len(recs)])

\* generate_recommendations line 238: recommendations[:max_recommendations]
top_n_plus_one(recs, n) == SubSeq(recs, 1, Min(n + 1, Len(recs)))

top_n(recs, n) == SubSeq(recs, 1, Min(n, Len(recs)))

(* RecommendationEngine.generate_recommendations *)
generate_recommendations_first_cluster_open(gaps, max_recommendations) ==
    LET cl == IF gaps = <<>> THEN << <<>> >> ELSE cluster_gaps(gaps, CLUSTERING_RADIUS_KM)
        recs == [c \in 1..Len(cl) |-> make_recommendation(gaps, cl[c], c - 1)]
    IN  top_n(sort_recommendations(recs), max_recommendations)

generate_recommendations(gaps, max_recommendations) ==
    IF gaps = <<>> THEN <<>>
    ELSE LET cl == cluster_gaps(gaps, CLUSTERING_RADIUS_KM)
             recs == [c \in 1..Len(cl) |-> make_recommendation(gaps, cl[c], c - 1)]
         IN  top_n(sort_recommendations(recs), max_recommendations)

----------------------------------------------------------------------------
(* round(x, 2) of a score.  A float that lies within rounding error of the *)
(* midpoint between two 2-decimal values (0.005 is stored slightly above   *)
(* it, 0.015 slightly below) goes either way; tie_up is the direction.     *)
round_2(score, tie_up) ==
    LET unit == ScoreScale \div 100
        q == score \div unit
        r == score % unit
    IN  IF 2 * r < unit THEN q * unit
        ELSE IF 2 * r > unit THEN (q + 1) * unit
        ELSE IF tie_up THEN (q + 1) * unit ELSE q * unit

(* Recommendation.to_dict: latitude and longitude are rounded to 6         *)
(* decimals (the unit of the model), the score to 2; cluster_id is not     *)
(* among the keys                                                          *)
to_dict(rec, tie_up) ==
    [location |-> [latitude |-> rec.latitude, longitude |-> rec.longitude],
     score |-> round_2(rec.score, tie_up),
     priority |-> rec.priority,
     population_reached |-> rec.population_reached,
     reason |-> rec.reason,
     gap_count |-> rec.gap_count]

(* RecommendationEngine.get_top_recommendations *)
get_top_recommendations(gaps, count, tie_up) ==
    LET recs == generate_recommendations(gaps, count)
    IN  [k \in 1..Len(recs) |-> to_dict(recs[k], tie_up)]

\* get_tower_recommendations line 116:
\* len(set(rec_data.get("cluster_id", i) for i, rec_data in enumerate(...)))
num_clusters(recommendations_data) ==
    Cardinality({ IF "cluster_id" \in DOMAIN recommendations_data[k]
                  THEN recommendations_data[k].cluster_id
                  ELSE k - 1 : k \in 1..Len(recommendations_data) })

\* get_tower_recommendations line 74
too_many_gaps_ge(gaps) == Len(gaps) >= MAX_GAP_ZONES

too_many_gaps(gaps) == Len(gaps) > MAX_GAP_ZONES

\* RecommendationRequest.max_recommendations: Field(ge=1, le=20)
valid_max_recommendations(m) ==
    m >= MAX_RECOMMENDATIONS_GE /\ m <= MAX_RECOMMENDATIONS_LE

NoResponse == [status |-> 0]

NoResult == [error |-> "none", value |-> 0]

----------------------------------------------------------------------------
(* Inputs *)

\* largest number of gaps in an enumerated request
MaxGaps == 3

\* longitudes of the gaps, micro-degrees: 17000 is 1891 m, 34000 is 3781 m,
\* 90000 is 10008 m
Longitudes == {0, 17000, 34000, 90000}

\* areas of the gaps, 1e-3 km2: 1 km2 (score 0.05), 40 km2 (2.0), 80 km2 (4.0);
\* two or three of them together score above 5.0
Areas == {1000, 40000, 80000}

\* values of max_recommendations, inside and outside the schema's range
RecCounts == {0, 1, 2, 3, 20, 21}

GapZones == { GapZone(0, lng, a) : lng \in Longitudes, a \in Areas }

GapLists == UNION { [1..n -> GapZones] : n \in 0..MaxGaps }

\* requests at the limit of the number of gap zones
LongLists == { [k \in 1..n |-> GapZone(0, 0, 100)] : n \in {MAX_GAP_ZONES, MAX_GAP_ZONES + 1} }

Requests ==
    { [gaps |-> g, max_recommendations |-> m] : g \in GapLists, m \in RecCounts }
    \cup { [gaps |-> g, max_recommendations |-> 5] : g \in LongLists }

\* single-gap requests over a range of areas, negative ones included:
\* every 0.01 km2 from -MaxNegativeArea to MaxArea (1e-2 km2), and every
\* 0.001 km2 up to MaxFineArea (1e-3 km2) on both sides of zero
MaxNegativeArea == 200

MaxArea == 26000

MaxFineArea == 50

ScoreAreas ==
    { 10 * a : a \in (0 - MaxNegativeArea)..MaxArea }
    \cup ((0 - MaxFineArea)..MaxFineArea)

ScoreRequests ==
    { [gaps |-> <<GapZone(0, 0, a)>>, max_recommendations |-> m] :
          a \in ScoreAreas, m \in {5, 21} }
    \cup { [gaps |-> <<>>, max_recommendations |-> 5] }

----------------------------------------------------------------------------
(* State machine: one request, served by one of the three entry points *)

Start(reqs) ==
    /\ request \in reqs
    /\ pc = "ready"
    /\ outcome = "none"
    /\ clusters = <<>>
    /\ recommendations = <<>>
    /\ response = NoResponse
    /\ engine_calls = 0
    /\ result = NoResult
    /\ towers = <<>>
    /\ calls = <<>>

Init == Start(Requests)

InitScore == Start(ScoreRequests)

(* a direct call of RecommendationEngine.cluster_gaps *)
ClusterGaps ==
    /\ pc = "ready"
    /\ pc' = "cluster_gaps"
    /\ clusters' = cluster_gaps(request.gaps, CLUSTERING_RADIUS_KM)
    /\ outcome' = "returned"
    /\ UNCHANGED <<request, recommendations, response, engine_calls, result, towers, calls>>

(* a direct call of RecommendationEngine.generate_recommendations *)
GenerateRecommendations ==
    /\ pc = "ready"
    /\ pc' = "generate_recommendations"
    /\ clusters' = IF request.gaps = <<>> THEN <<>>
                   ELSE cluster_gaps(request.gaps, CLUSTERING_RADIUS_KM)
    /\ recommendations' = generate_recommendations(request.gaps, request.max_recommendations)
    /\ outcome' = "returned"
    /\ engine_calls' = engine_calls + 1
    /\ UNCHANGED <<request, response, result, towers, calls>>

(* POST /recommendations/towers: request validation by the schema *)
PostTowersInvalid ==
    /\ pc = "ready"
    /\ ~valid_max_recommendations(request.max_recommendations)
    /\ pc' = "get_tower_recommendations"
    /\ outcome' = "http"
    /\ response' = [status |-> 422]
    /\ UNCHANGED <<request, clusters, recommendations, engine_calls, result, towers, calls>>

(* get_tower_recommendations lines 67-78: the two 400 answers *)
PostTowersRejected ==
    /\ pc = "ready"
    /\ valid_max_recommendations(request.max_recommendations)
    /\ request.gaps = <<>> \/ too_many_gaps(request.gaps)
    /\ pc' = "get_tower_recommendations"
    /\ outcome' = "http"
    /\ response' = [status |-> 400]
    /\ UNCHANGED <<request, clusters, recommendations, engine_calls, result, towers, calls>>

(* get_tower_recommendations lines 80-128 *)
PostTowers ==
    /\ pc = "ready"
    /\ valid_max_recommendations(request.max_recommendations)
    /\ ~(request.gaps = <<>> \/ too_many_gaps(request.gaps))
    /\ \E tie_up \in BOOLEAN :
         LET gaps == [k \in 1..Len(request.gaps) |->
                         GapZone(request.gaps[k].latitude, request.gaps[k].longitude,
                                 request.gaps[k].area_km2)]
             recommendations_data ==
                 get_top_recommendations(gaps, request.max_recommendations, tie_up)
         IN  /\ clusters' = cluster_gaps(gaps, CLUSTERING_RADIUS_KM)
             /\ recommendations' = generate_recommendations(gaps, request.max_recommendations)
             /\ response' = [status |-> 200,
                             recommendations |-> recommendations_data,
                             total_gaps_analyzed |-> Len(request.gaps),
                             clusters_found |-> num_clusters(recommendations_data)]
    /\ pc' = "get_tower_recommendations"
    /\ outcome' = "http"
    /\ engine_calls' = engine_calls + 1
    /\ UNCHANGED <<request, result, towers, calls>>

Next ==
    \/ ClusterGaps
    \/ GenerateRecommendations
    \/ PostTowersInvalid
    \/ PostTowersRejected
    \/ PostTowers

Spec == Init /\ [][Next]_vars

SpecScore == InitScore /\ [][Next]_vars

----------------------------------------------------------------------------
(* Properties *)

gaps_in == request.gaps

\* distance in metres between gaps a and b of the request
gap_distance(a, b) ==
    haversine_distance(gaps_in[a].latitude, gaps_in[a].longitude,
                       gaps_in[b].latitude, gaps_in[b].longitude)

RadiusMetres == CLUSTERING_RADIUS_KM * 1000

index_set(cluster) == { cluster[k] : k \in 1..Len(cluster) }

assigned_before(c) == UNION { index_set(clusters[d]) : d \in 1..(c - 1) }

engine_ran == pc = "cluster_gaps" \/ pc = "generate_recommendations"

\* C1: every cluster is its seed, the first gap in input order that no
\* earlier cluster holds, followed by exactly the later gaps no earlier
\* cluster holds that lie within 2 km of the seed; so two gaps share a
\* cluster iff they are at most 2 km apart, and n gaps all within 2 km of
\* the first give one recommendation with gap_count = n.
C1_SeedClusters ==
    /\ engine_ran =>
         /\ \A c \in 1..Len(clusters) :
              LET seed == clusters[c][1]
                  before == assigned_before(c)
              IN  /\ seed = MinOf({ k \in 1..Len(gaps_in) : k \notin before })
                  /\ index_set(clusters[c]) =
                       {seed} \cup { j \in (seed + 1)..Len(gaps_in) :
                                       j \notin before /\ gap_distance(seed, j) <= RadiusMetres }
                  /\ \A k \in 1..(Len(clusters[c]) - 1) : clusters[c][k] < clusters[c][k + 1]
         /\ Len(gaps_in) = 2 =>
              (Len(clusters) = 1 <=> gap_distance(1, 2) <= RadiusMetres)
    /\ ( /\ pc = "generate_recommendations"
         /\ request.max_recommendations >= 1
         /\ gaps_in # <<>>
         /\ \A j \in 1..Len(gaps_in) : gap_distance(1, j) <= RadiusMetres )
       => /\ Len(recommendations) = 1
          /\ recommendations[1].gap_count = Len(gaps_in)

\* a cluster of two gaps was formed and a later gap, within 2 km of the
\* second member but not of the seed, opened a cluster of its own
C1_Witness ==
    /\ pc = "cluster_gaps"
    /\ Len(gaps_in) = 3
    /\ clusters = << <<1, 2>>, <<3>> >>
    /\ gap_distance(2, 3) <= RadiusMetres
    /\ gap_distance(1, 3) > RadiusMetres

----------------------------------------------------------------------------
single_gap_call ==
    /\ pc = "generate_recommendations"
    /\ Len(gaps_in) = 1
    /\ request.max_recommendations >= 1

\* areas 1, 2, 4, ..., 256 km2
DoublingSteps == 8

DoublingAreas == { AreaScale * 2^k : k \in 0..DoublingSteps }

\* C2 as stated: a single gap of 1.0 km2 is scored exactly 5.0 with priority
\* "medium", and doubling the area of a single gap raises the score until
\* it is 10.0.
C2_Original ==
    single_gap_call =>
        /\ Len(recommendations) = 1
        /\ gaps_in[1].area_km2 = AreaScale =>
             /\ recommendations[1].score = 5 * ScoreScale
             /\ recommendations[1].priority = "medium"
        /\ (gaps_in[1].area_km2 \in DoublingAreas
            /\ recommendations[1].score < SCORE_CAP * ScoreScale)
           => cluster_score(2 * gaps_in[1].area_km2) > recommendations[1].score

\* C2 amended: a single gap of 1.0 km2 is scored exactly 0.05 with priority
\* "low"; along the doubling sequence 1, 2, 4, ... km2 the score is 0.05
\* times the area while that is below 10.0, each doubling strictly raises
\* it, and from 200 km2 on it is exactly 10.0.
C2_ScoreOfSingleGap ==
    single_gap_call =>
        /\ Len(recommendations) = 1
        /\ gaps_in[1].area_km2 = AreaScale =>
             /\ 100 * recommendations[1].score = 5 * ScoreScale
             /\ recommendations[1].priority = "low"
        /\ gaps_in[1].area_km2 \in DoublingAreas =>
             LET a == gaps_in[1].area_km2
                 score == recommendations[1].score
             IN  /\ score <= SCORE_CAP * ScoreScale
                 /\ score < SCORE_CAP * ScoreScale =>
                      /\ 20 * score = a * (ScoreScale \div AreaScale)
                      /\ cluster_score(2 * a) > score
                 /\ a >= 200 * AreaScale => score = SCORE_CAP * ScoreScale

\* the doubling sequence has reached the cap: a single gap of 256 km2
C2_Witness ==
    /\ single_gap_call
    /\ gaps_in[1].area_km2 = 256 * AreaScale
    /\ recommendations[1].score = SCORE_CAP * ScoreScale
    /\ recommendations[1].priority = "high"

answered_200 == pc = "get_tower_recommendations" /\ response.status = 200

\* C3: every recommendation returned by POST /recommendations/towers has
\* a score between 0 and 10.
C3_ScoreInRange ==
    answered_200 =>
        \A k \in 1..Len(response.recommendations) :
            /\ response.recommendations[k].score >= 0
            /\ response.recommendations[k].score <= SCORE_CAP * ScoreScale

\* C4: in every returned item the priority is the band of the returned
\* score: high iff score > 5, medium iff 2 <= score <= 5, low iff score < 2.
C4_PriorityMatchesReturnedScore ==
    answered_200 =>
        \A k \in 1..Len(response.recommendations) :
            LET item == response.recommendations[k]
            IN  /\ item.priority = "high" <=> item.score > 5 * ScoreScale
                /\ item.priority = "medium" <=>
                     (item.score >= 2 * ScoreScale /\ item.score <= 5 * ScoreScale)
                /\ item.priority = "low" <=> item.score < 2 * ScoreScale

----------------------------------------------------------------------------
rank(r) == IF r.priority = "high" THEN 0 ELSE IF r.priority = "medium" THEN 1 ELSE 2

generated ==
    pc = "generate_recommendations" \/ (pc = "get_tower_recommendations" /\ response.status = 200)

\* C5: the list returned by generate_recommendations is ordered by priority
\* rank ascending (high, medium, low) and by score descending within one
\* priority: every adjacent pair (a, b) has rank(a) < rank(b), or equal
\* ranks and score(a) >= score(b).
C5_RankedByPriorityThenScore ==
    generated =>
        \A k \in 1..(Len(recommendations) - 1) :
            LET a == recommendations[k]
                b == recommendations[k + 1]
            IN  \/ rank(a) < rank(b)
                \/ (rank(a) = rank(b) /\ a.score >= b.score)

\* three recommendations: two of one priority with different scores, in an
\* order other than that of their clusters, then one of a lower priority
C5_Witness ==
    /\ pc = "generate_recommendations"
    /\ Len(recommendations) = 3
    /\ rank(recommendations[1]) = rank(recommendations[2])
    /\ recommendations[1].score > recommendations[2].score
    /\ recommendations[1].cluster_id > recommendations[2].cluster_id
    /\ rank(recommendations[2]) < rank(recommendations[3])

\* the recommendation of every cluster of the call, ranked or not
all_recommendations ==
    { make_recommendation(gaps_in, clusters[c], c - 1) : c \in 1..Len(clusters) }

returned_set == { recommendations[k] : k \in 1..Len(recommendations) }

ranks_before(a, b) ==
    rank(a) < rank(b) \/ (rank(a) = rank(b) /\ a.score > b.score)

\* C6: for max_recommendations in 1..20 generate_recommendations returns
\* min(number of clusters, max_recommendations) recommendations, each of a
\* different cluster, and no cluster left out ranks before a returned one.
C6_TopOfRanking ==
    ( /\ pc = "generate_recommendations"
      /\ request.max_recommendations \in MAX_RECOMMENDATIONS_GE..MAX_RECOMMENDATIONS_LE )
    => /\ Len(recommendations) = Min(Len(clusters), request.max_recommendations)
       /\ returned_set \subseteq all_recommendations
       /\ Cardinality(returned_set) = Len(recommendations)
       /\ \A d \in all_recommendations \ returned_set :
            \A r \in returned_set : ~ranks_before(d, r)

\* three clusters, two returned, and the one left out ranks after both
C6_Witness ==
    /\ pc = "generate_recommendations"
    /\ request.max_recommendations = 2
    /\ Len(clusters) = 3
    /\ Len(recommendations) = 2
    /\ \E d \in all_recommendations \ returned_set :
         \A r \in returned_set : ranks_before(r, d)

\* C7: clusters_found of the response is the number of clusters that
\* cluster_gaps made of the request's gaps.
C7_ClustersFound ==
    answered_200 => response.clusters_found = Len(clusters)

\* C8: generate_recommendations on an empty gap list returns the empty list
\* and raises nothing, whatever max_recommendations is.
C8_EmptyGapList ==
    (pc = "generate_recommendations" /\ gaps_in = <<>>)
    => /\ recommendations = <<>>
       /\ outcome = "returned"

\* the engine was called with no gaps and max_recommendations = 20
C8_Witness ==
    /\ pc = "generate_recommendations"
    /\ gaps_in = <<>>
    /\ request.max_recommendations = MAX_RECOMMENDATIONS_LE
    /\ engine_calls = 1
    /\ recommendations = <<>>

\* C9: POST /recommendations/towers answers 400 without running the engine
\* when the gap list is empty or longer than 1000; every other request that
\* the schema admits is answered with total_gaps_analyzed = number of gaps.
C9_GapCountValidation ==
    ( /\ pc = "get_tower_recommendations"
      /\ valid_max_recommendations(request.max_recommendations) )
    => IF gaps_in = <<>> \/ Len(gaps_in) > MAX_GAP_ZONES
       THEN /\ response = [status |-> 400]
            /\ engine_calls = 0
            /\ recommendations = <<>>
            /\ clusters = <<>>
       ELSE /\ response.status = 200
            /\ engine_calls = 1
            /\ response.total_gaps_analyzed = Len(gaps_in)

\* a request of exactly 1000 gaps was analysed
C9_Witness ==
    /\ pc = "get_tower_recommendations"
    /\ Len(gaps_in) = MAX_GAP_ZONES
    /\ response.status = 200
    /\ response.total_gaps_analyzed = MAX_GAP_ZONES

\* the same gaps with the first two exchanged
swapped_gaps == <<gaps_in[2], gaps_in[1], gaps_in[3]>>

\* gap 1 is within 2 km of gaps 2 and 3, which are more than 2 km apart
middle_first ==
    /\ pc = "cluster_gaps"
    /\ Len(gaps_in) = 3
    /\ gap_distance(1, 2) <= RadiusMetres
    /\ gap_distance(1, 3) <= RadiusMetres
    /\ gap_distance(2, 3) > RadiusMetres

\* C10: clustering depends on the input order: three gaps B, A, C with A and
\* C each within 2 km of B and more than 2 km from each other form one
\* cluster in the order B, A, C and two clusters, {A, B} and {C}, in the
\* order A, B, C.
C10_OrderDependent ==
    middle_first =>
        /\ clusters = << <<1, 2, 3>> >>
        /\ cluster_gaps(swapped_gaps, CLUSTERING_RADIUS_KM) = << <<1, 2>>, <<3>> >>

\* the middle gap came first and took both outer gaps into its cluster
C10_Witness ==
    /\ middle_first
    /\ Len(clusters) = 1
    /\ gaps_in[2].longitude < gaps_in[1].longitude
    /\ gaps_in[1].longitude < gaps_in[3].longitude

----------------------------------------------------------------------------
\* total area of the cluster behind a recommendation
total_area_of(rec) ==
    calculate_cluster_centroid(cluster_members(gaps_in, clusters[rec.cluster_id + 1]))[3]

\* C11: for every cluster total area A >= 0, population_reached is the
\* integer part of 500 * T * min(A / T, 1) with T = pi * 3.5^2: 0 when
\* A = 0, the integer part of 500 * A below T, and int(500 * T) = 19242
\* from T on.
C11_PopulationOfArea ==
    generated =>
        \A k \in 1..Len(recommendations) :
            LET A == total_area_of(recommendations[k])
                population == recommendations[k].population_reached
            IN  A >= 0 =>
                  /\ A = 0 => population = 0
                  /\ A <= TYPICAL_COVERAGE_AREA =>
                       population = (POPULATION_DENSITY_PER_KM2 * A) \div AreaScale
                  /\ A > TYPICAL_COVERAGE_AREA => population = TYPICAL_POPULATION

\* C12: every recommendation returned by POST /recommendations/towers for a
\* non-empty gap list has population_reached > 0.
C12_PopulationPositive ==
    (answered_200 /\ Len(gaps_in) > 0) =>
        \A k \in 1..Len(response.recommendations) :
            response.recommendations[k].population_reached > 0

----------------------------------------------------------------------------
(***************************************************************************)
(* RF calculations: app/services/rf_calculations.py                        *)
(*                                                                         *)
(* Fixed-point units:                                                      *)
(*   powers, gains, losses : 1e-3 dB                                       *)
(*   distance_km           : metres                                        *)
(*   frequency_mhz         : MHz                                           *)
(*   antenna heights       : decimetres                                    *)
(*   logarithms            : 1e-5                                          *)
(* A function returns [error, value]: error is "none" and value what the   *)
(* function returned, or error is the exception that ended the call.       *)
(***************************************************************************)

DbScale == 1000

HeightScale == 10

Log10Scale == 100000

Max(a, b) == IF a >= b THEN a ELSE b

\* a / b rounded to the nearest integer, for an even b > 0
Nearest(a, b) == (a + b \div 2) \div b

Returned(v) == [error |-> "none", value |-> v]

Raised(e) == [error |-> e, value |-> 0]

\* round(1e5 * log10(1 + i / 100)) for i = 0..100
LOG10_TABLE ==
    <<0, 432, 860, 1284, 1703, 2119, 2531, 2938, 3342, 3743, 4139, 4532,
      4922, 5308, 5690, 6070, 6446, 6819, 7188, 7555, 7918, 8279, 8636,
      8991, 9342, 9691, 10037, 10380, 10721, 11059, 11394, 11727, 12057,
      12385, 12710, 13033, 13354, 13672, 13988, 14301, 14613, 14922, 15229,
      15534, 15836, 16137, 16435, 16732, 17026, 17319, 17609, 17898, 18184,
      18469, 18752, 19033, 19312, 19590, 19866, 20140, 20412, 20683, 20952,
      21219, 21484, 21748, 22011, 22272, 22531, 22789, 23045, 23300, 23553,
      23805, 24055, 24304, 24551, 24797, 25042, 25285, 25527, 25768, 26007,
      26245, 26482, 26717, 26951, 27184, 27416, 27646, 27875, 28103, 28330,
      28556, 28780, 29003, 29226, 29447, 29667, 29885, 30103>>

\* number of decimal digits of n, 1 <= n < 10^9
Digits(n) == CHOOSE k \in 1..9 : 10^(k - 1) <= n /\ n < 10^k

(* math.log10 of an integer n, 1 <= n < 10^9, in 1e-5: n is cut to five     *)
(* digits m, m = 2^k * x with 10000 <= x < 20000, and log10(x / 10000) is  *)
(* read from the table with linear interpolation (error below 1e-4)        *)
log10(n) ==
    LET e  == Digits(n) - 5
        m  == IF e >= 0 THEN n \div 10^e ELSE n * 10^(0 - e)
        k  == CHOOSE j \in 0..3 : 2^j * 10000 <= m /\ m < 2^(j + 1) * 10000
        x  == m \div 2^k
        i  == (x - 10000) \div 100
        f  == (x - 10000) % 100
        lo == LOG10_TABLE[i + 1]
        hi == LOG10_TABLE[i + 2]
    IN  (e + 4) * Log10Scale + k * LOG10_TABLE[101] + lo + Nearest((hi - lo) * f, 100)

\* the square of a logarithm, in 1e-5
log10_squared(l) ==
    LET l4 == Nearest(l, 10)
    IN  Nearest(l4 * l4, 1000)

\* the product of a >= 0 and b, both in 1e-5, in 1e-5
log10_product(a, b) ==
    Nearest((a \div 1000) * b, 100) + Nearest((a % 1000) * b, 100000)

(* RFCalculations.friis_path_loss: math.log10 raises ValueError for an     *)
(* argument that is not positive                                           *)
friis_path_loss(frequency_mhz, distance_m) ==
    IF distance_m <= 0 THEN Raised("ValueError")
    ELSE IF frequency_mhz <= 0 THEN Raised("ValueError")
    ELSE Returned(Nearest(20 * log10(distance_m)
                           + 20 * (log10(frequency_mhz) - 3 * Log10Scale), 100)
                  + 92450)

(* RFCalculations.okumura_hata_path_loss lines 51-55: the mobile antenna   *)
(* height correction a_hr, in 1e-5 dB                                      *)
a_hr(frequency_mhz, rx_height_m) ==
    IF frequency_mhz <= 200
    THEN Nearest(829 * log10_squared(log10(154 * rx_height_m) - 3 * Log10Scale), 100)
         - 110000
    ELSE Nearest(32 * log10_squared(log10(1175 * rx_height_m) - 3 * Log10Scale), 10)
         - 497000

(* RFCalculations.okumura_hata_path_loss lines 63-67: what the environment *)
(* takes off the urban loss, in 1e-5 dB                                    *)
environment_adjustment(frequency_mhz, environment) ==
    IF environment = "suburban"
    THEN 2 * log10_squared(log10(frequency_mhz * 1000) - log10(28000)) + 540000
    ELSE IF environment = "rural"
    THEN Nearest(478 * log10_squared(log10(frequency_mhz)), 100)
         + Nearest(1833 * log10(frequency_mhz), 100) + 4094000
    ELSE 0

(* RFCalculations.okumura_hata_path_loss, in 1e-3 dB *)
okumura_hata_path_loss(frequency_mhz, distance_m, tx_height_m, rx_height_m, environment) ==
    IF rx_height_m <= 0 \/ frequency_mhz <= 0 \/ tx_height_m <= 0 \/ distance_m <= 0
    THEN Raised("ValueError")
    ELSE LET log_f  == log10(frequency_mhz)
             log_ht == log10(tx_height_m) - Log10Scale
             log_d  == log10(distance_m) - 3 * Log10Scale
             slope  == 4490000 - Nearest(655 * log_ht, 100)
             L50    == 6955000 + Nearest(2616 * log_f, 100)
                       - Nearest(1382 * log_ht, 100)
                       - a_hr(frequency_mhz, rx_height_m)
                       + log10_product(slope, log_d)
         IN  Returned(Nearest(L50 - environment_adjustment(frequency_mhz, environment),
                               100))

(* round(x, 2) of a value in 1e-3 dB; a value half way between two         *)
(* 2-decimal values goes the way of the float that stores it (tie_up)      *)
round_db(x, tie_up) ==
    LET unit == DbScale \div 100
        q == x \div unit
        r == x % unit
    IN  IF 2 * r < unit THEN q * unit
        ELSE IF 2 * r > unit THEN (q + 1) * unit
        ELSE IF tie_up THEN (q + 1) * unit ELSE q * unit

\* the values link_budget_analysis rounds, each with its own tie direction
RoundedValues == {"rx_power", "path_loss", "eirp", "total_gain", "link_margin"}

(* RFCalculations.link_budget_analysis *)
link_budget_analysis(tx_power_dbm, tx_gain_dbi, rx_gain_dbi, frequency_mhz, distance_m, additional_losses_db, rx_sensitivity_dbm, ties) ==
    LET path_loss == friis_path_loss(frequency_mhz, distance_m)
        eirp_dbm == tx_power_dbm + tx_gain_dbi
        rx_power_dbm == eirp_dbm + rx_gain_dbi - path_loss.value - additional_losses_db
        link_margin_db == rx_power_dbm - rx_sensitivity_dbm
    IN  IF path_loss.error # "none" THEN path_loss
        ELSE Returned(
               [received_power_dbm |-> round_db(rx_power_dbm, ties["rx_power"]),
                path_loss_db |-> round_db(path_loss.value, ties["path_loss"]),
                free_space_loss_db |-> round_db(path_loss.value, ties["path_loss"]),
                eirp_dbm |-> round_db(eirp_dbm, ties["eirp"]),
                total_gain_db |-> round_db(tx_gain_dbi + rx_gain_dbi, ties["total_gain"]),
                link_margin_db |-> round_db(link_margin_db, ties["link_margin"]),
                is_viable |-> link_margin_db > 0,
                fade_margin_db |-> IF link_margin_db > 0
                                   THEN round_db(link_margin_db, ties["link_margin"])
                                   ELSE 0])

(* RFCalculations.wavelength of a frequency in MHz, in millimetres:        *)
(* 3e8 / (frequency_mhz * 1e6) m                                           *)
wavelength(frequency_mhz) ==
    IF frequency_mhz = 0 THEN Raised("ZeroDivisionError")
    ELSE Returned(300000 \div frequency_mhz)

\* the integer part of the square root of n >= 0
RECURSIVE sqrt_between(_, _, _)
sqrt_between(n, lo, hi) ==
    IF lo >= hi THEN lo
    ELSE LET mid == (lo + hi + 1) \div 2
         IN  IF mid * mid <= n THEN sqrt_between(n, mid, hi)
             ELSE sqrt_between(n, lo, mid - 1)

\* math.sqrt raises ValueError for a negative argument
sqrt(n) == IF n < 0 THEN Raised("ValueError") ELSE Returned(sqrt_between(n, 0, Min(n, 46340)))

(* RFCalculations.fresnel_zone_radius, in decimetres:                      *)
(* sqrt(zone_number * wavelength_m * distance_m / 4)                       *)
fresnel_zone_radius(distance_m, frequency_mhz, zone_number) ==
    LET wavelength_m == wavelength(frequency_mhz)
    IN  IF wavelength_m.error # "none" THEN wavelength_m
        ELSE LET product == zone_number * wavelength_m.value * distance_m
             IN  IF product < 0 THEN sqrt(0 - 1) ELSE sqrt(product \div 40)

(* RFCalculations.estimate_signal_from_tower, in 1e-3 dBm *)
estimate_signal_from_tower(distance_m, tx_power_dbm, tx_gain_dbi, rx_gain_dbi, frequency_mhz, tx_height_m, rx_height_m) ==
    IF distance_m < 10 THEN Returned(tx_power_dbm)
    ELSE LET path_loss == okumura_hata_path_loss(frequency_mhz, distance_m, tx_height_m,
                                                  rx_height_m, "urban")
             eirp_dbm == tx_power_dbm + tx_gain_dbi
             rx_power_dbm == eirp_dbm - path_loss.value + rx_gain_dbi
         IN  IF path_loss.error # "none" THEN path_loss
             ELSE Returned(Max(0 - 120 * DbScale, Min(0, rx_power_dbm)))

----------------------------------------------------------------------------
(* Calls of the RF functions *)

\* MHz: not positive, at most 200 (the other a_hr), above 200
Frequencies == {0 - 900, 0, 150, 1000, 2100}

\* metres: not positive, below 10 m, from 10 m on
Distances == {0 - 1000, 0, 5, 10, 1000, 3000, 16000}

\* 1e-3 dBm
TxPowers == {0 - 130000, 0, 4, 43000, 200000}

\* 1e-3 dBi
TxGains == {0, 1, 15000}

\* 1e-3 dBm: 4 thousandths below the power received at 1 km on 1000 MHz
\* without gains, and the default -100 dBm
Sensitivities == {0 - 152454, 0 - 100000}

ZoneNumbers == {1, 2}

Environments == {"urban", "suburban", "rural"}

\* the defaults of estimate_signal_from_tower and okumura_hata_path_loss
DEFAULT_TX_HEIGHT == 30 * HeightScale

DEFAULT_RX_HEIGHT == 15

RFRequests ==
    [frequency_mhz : Frequencies, distance_m : Distances, tx_power_dbm : TxPowers,
     tx_gain_dbi : TxGains, rx_gain_dbi : {0}, additional_losses_db : {0},
     rx_sensitivity_dbm : Sensitivities, zone_number : ZoneNumbers,
     environment : Environments, tx_height_m : {DEFAULT_TX_HEIGHT},
     rx_height_m : {DEFAULT_RX_HEIGHT}]

InitRF == Start(RFRequests)

\* a direct call ends: what it returned or raised is in result
Called(name, r) ==
    /\ pc = "ready"
    /\ pc' = name
    /\ result' = r
    /\ outcome' = IF r.error = "none" THEN "returned" ELSE "raised"
    /\ UNCHANGED <<request, clusters, recommendations, response, engine_calls, towers, calls>>

FriisPathLoss ==
    Called("friis_path_loss", friis_path_loss(request.frequency_mhz, request.distance_m))

OkumuraHataPathLoss ==
    Called("okumura_hata_path_loss",
           okumura_hata_path_loss(request.frequency_mhz, request.distance_m,
                                  request.tx_height_m, request.rx_height_m,
                                  request.environment))

LinkBudgetAnalysis ==
    \E ties \in [RoundedValues -> BOOLEAN] :
        Called("link_budget_analysis",
               link_budget_analysis(request.tx_power_dbm, request.tx_gain_dbi,
                                    request.rx_gain_dbi, request.frequency_mhz,
                                    request.distance_m, request.additional_losses_db,
                                    request.rx_sensitivity_dbm, ties))

FresnelZoneRadius ==
    Called("fresnel_zone_radius",
           fresnel_zone_radius(request.distance_m, request.frequency_mhz,
                               request.zone_number))

EstimateSignalFromTower ==
    Called("estimate_signal_from_tower",
           estimate_signal_from_tower(request.distance_m, request.tx_power_dbm,
                                      request.tx_gain_dbi, request.rx_gain_dbi,
                                      request.frequency_mhz, request.tx_height_m,
                                      request.rx_height_m))

NextRF ==
    \/ FriisPathLoss
    \/ OkumuraHataPathLoss
    \/ LinkBudgetAnalysis
    \/ FresnelZoneRadius
    \/ EstimateSignalFromTower

SpecRF == InitRF /\ [][NextRF]_vars

----------------------------------------------------------------------------
called(name) == pc = name

\* C13: estimate_signal_from_tower returns a value in [-120, 0] dBm for
\* every distance_km >= 0, the distances below 0.01 km included, and every
\* transmit power and gain.
C13_SignalInRange ==
    (called("estimate_signal_from_tower") /\ request.distance_m >= 0) =>
        /\ outcome = "returned"
        /\ result.value >= 0 - 120 * DbScale
        /\ result.value <= 0

non_positive_input == request.frequency_mhz <= 0 \/ request.distance_m <= 0

\* C14: friis_path_loss, okumura_hata_path_loss, link_budget_analysis and
\* fresnel_zone_radius end in an error, never in a returned number, for
\* every input with frequency_mhz <= 0 or distance_km <= 0.
C14_NonPositiveInputRaises ==
    ((called("friis_path_loss") \/ called("okumura_hata_path_loss")
      \/ called("link_budget_analysis") \/ called("fresnel_zone_radius"))
     /\ non_positive_input)
    => outcome = "raised"

\* C15: in every result of link_budget_analysis, is_viable is true exactly
\* when the returned link_margin_db is > 0, fade_margin_db is the returned
\* link_margin_db when is_viable is true and 0 otherwise, and eirp_dbm is
\* tx_power_dbm + tx_gain_dbi.
C15_LinkBudgetResult ==
    (called("link_budget_analysis") /\ outcome = "returned") =>
        /\ result.value.is_viable <=> result.value.link_margin_db > 0
        /\ result.value.fade_margin_db =
             IF result.value.is_viable THEN result.value.link_margin_db ELSE 0
        /\ result.value.eirp_dbm = request.tx_power_dbm + request.tx_gain_dbi

----------------------------------------------------------------------------
(***************************************************************************)
(* Coverage analysis: app/services/coverage_analysis.py                    *)
(*                                                                         *)
(* A point is a pair <<lat, lng>> and a polygon a sequence of points.      *)
(* point_in_polygon compares coordinates and one quotient; on the whole-   *)
(* number coordinates of the model the float quotient of line 38 is exact  *)
(* whenever it equals lat, so the comparison is made on the fractions.     *)
(***************************************************************************)

\* lines 34-35 with >= for >: the edge spans lng, both ends included
edge_spans_closed(lng, p1_lng, p2_lng) ==
    lng >= Min(p1_lng, p2_lng) /\ lng <= Max(p1_lng, p2_lng)

\* point_in_polygon lines 34-35
edge_spans(lng, p1_lng, p2_lng) ==
    lng > Min(p1_lng, p2_lng) /\ lng <= Max(p1_lng, p2_lng)

\* point_in_polygon line 38: x_inters = num / den + base
x_inters_of(lng, p1, p2) ==
    [num |-> (lng - p1[2]) * (p2[1] - p1[1]), den |-> p2[2] - p1[2], base |-> p1[1]]

\* point_in_polygon line 39: lat <= x_inters
le_x_inters(lat, x_inters) ==
    IF x_inters.den > 0
    THEN (lat - x_inters.base) * x_inters.den <= x_inters.num
    ELSE (lat - x_inters.base) * x_inters.den >= x_inters.num

(* point_in_polygon lines 33-41: one iteration of the loop on the edge     *)
(* from p1 to p2.  The local x_inters keeps its value between iterations   *)
(* (bound tells whether it has one); a read before any assignment raises   *)
(* UnboundLocalError.  stale_reads counts the iterations that read         *)
(* x_inters without assigning it, equal_lng_toggles the toggles made on an *)
(* edge with p1_lng = p2_lng.                                              *)
edge_step(state, lat, lng, p1, p2) ==
    LET reached == /\ edge_spans(lng, p1[2], p2[2])
                   /\ lat <= Max(p1[1], p2[1])
        assigns == reached /\ p1[2] # p2[2]
        reads   == reached /\ p1[1] # p2[1]
        x_inters == IF assigns THEN x_inters_of(lng, p1, p2) ELSE state.x_inters
        bound   == state.bound \/ assigns
        toggles == reached /\ (p1[1] = p2[1] \/ le_x_inters(lat, x_inters))
    IN  IF state.error # "none" THEN state
        ELSE IF reads /\ ~bound THEN [state EXCEPT !.error = "UnboundLocalError"]
        ELSE [inside |-> IF toggles THEN ~state.inside ELSE state.inside,
              x_inters |-> x_inters,
              bound |-> bound,
              error |-> "none",
              stale_reads |-> state.stale_reads + (IF reads /\ ~assigns THEN 1 ELSE 0),
              equal_lng_toggles |->
                  state.equal_lng_toggles + (IF toggles /\ p1[2] = p2[2] THEN 1 ELSE 0)]

\* point_in_polygon lines 32-41: iterations i..n of the loop
RECURSIVE edge_loop(_, _, _, _, _)
edge_loop(state, lat, lng, polygon, i) ==
    LET n == Len(polygon)
    IN  IF i > n THEN state
        ELSE edge_loop(edge_step(state, lat, lng, polygon[((i - 1) % n) + 1],
                                 polygon[(i % n) + 1]),
                       lat, lng, polygon, i + 1)

\* point_in_polygon lines 27-31: the locals before the loop
loop_start ==
    [inside |-> FALSE, x_inters |-> [num |-> 0, den |-> 1, base |-> 0], bound |-> FALSE,
     error |-> "none", stale_reads |-> 0, equal_lng_toggles |-> 0]

\* the locals of point_in_polygon when it ends; polygon[0] of an empty
\* polygon raises IndexError
point_in_polygon_run(point, polygon) ==
    IF polygon = <<>> THEN [loop_start EXCEPT !.error = "IndexError"]
    ELSE edge_loop(loop_start, point[1], point[2], polygon, 1)

(* CoverageAnalyzer.point_in_polygon *)
point_in_polygon(point, polygon) ==
    LET run == point_in_polygon_run(point, polygon)
    IN  IF run.error # "none" THEN Raised(run.error) ELSE Returned(run.inside)

----------------------------------------------------------------------------
(* Calls of point_in_polygon *)

\* vertices of the enumerated polygons have coordinates 0..MaxCoordinate
MaxCoordinate == 2

\* largest number of vertices of an enumerated polygon
MaxVertices == 3

\* side of the axis-aligned squares
SquareSide == 4

Vertices == (0..MaxCoordinate) \X (0..MaxCoordinate)

SmallPolygons == UNION { [1..n -> Vertices] : n \in 0..MaxVertices }

\* the corners of the square [0, s] x [0, s] as in [[0,0],[0,1],[1,1],[1,0]]
square_corners(s) == << <<0, 0>>, <<0, s>>, <<s, s>>, <<s, 0>> >>

\* the polygon that starts at corner k and goes round forwards or backwards
rotation(corners, k, forwards) ==
    [j \in 1..Len(corners) |->
        corners[(((IF forwards THEN k + j - 2 ELSE k - j) + 2 * Len(corners))
                 % Len(corners)) + 1]]

\* a polygon with its first vertex repeated at the end
closed(polygon) == Append(polygon, polygon[1])

\* the axis-aligned squares: every start corner, both directions, open and
\* closed, of side 1 and of side SquareSide
Squares ==
    LET open == { rotation(square_corners(s), k, f) :
                      s \in {1, SquareSide}, k \in 1..4, f \in BOOLEAN }
    IN  open \cup { closed(p) : p \in open }

\* query points around and inside the squares
QueryPoints == ((0 - 1)..(SquareSide + 1)) \X ((0 - 1)..(SquareSide + 1))

PolygonRequests ==
    [point : QueryPoints, polygon : SmallPolygons \cup Squares]

InitPolygon == Start(PolygonRequests)

PointInPolygon ==
    Called("point_in_polygon", point_in_polygon(request.point, request.polygon))

NextPolygon == PointInPolygon

SpecPolygon == InitPolygon /\ [][NextPolygon]_vars

----------------------------------------------------------------------------
lats_of(polygon) == { polygon[k][1] : k \in 1..Len(polygon) }

lngs_of(polygon) == { polygon[k][2] : k \in 1..Len(polygon) }

MaxOf(S) == CHOOSE x \in S : \A y \in S : x >= y

square_call == called("point_in_polygon") /\ request.polygon \in Squares

strictly_inside(point, polygon) ==
    /\ MinOf(lats_of(polygon)) < point[1] /\ point[1] < MaxOf(lats_of(polygon))
    /\ MinOf(lngs_of(polygon)) < point[2] /\ point[2] < MaxOf(lngs_of(polygon))

outside_bounds(point, polygon) ==
    \/ point[1] < MinOf(lats_of(polygon)) \/ point[1] > MaxOf(lats_of(polygon))
    \/ point[2] < MinOf(lngs_of(polygon)) \/ point[2] > MaxOf(lngs_of(polygon))

\* the fixed result on the boundary: the edges of greatest latitude and of
\* greatest longitude belong to the square, the other two do not
in_half_open_box(point, polygon) ==
    /\ MinOf(lats_of(polygon)) < point[1] /\ point[1] <= MaxOf(lats_of(polygon))
    /\ MinOf(lngs_of(polygon)) < point[2] /\ point[2] <= MaxOf(lngs_of(polygon))

\* C16: on an axis-aligned square point_in_polygon returns true for every
\* point strictly inside, false for every point strictly outside the
\* bounding box, and on the boundary one fixed result: true exactly on the
\* two edges of greatest latitude and greatest longitude (their common
\* corner included, their other ends not).
C16_SquareMembership ==
    square_call =>
        /\ outcome = "returned"
        /\ strictly_inside(request.point, request.polygon) => result.value = TRUE
        /\ outside_bounds(request.point, request.polygon) => result.value = FALSE
        /\ result.value = in_half_open_box(request.point, request.polygon)

\* a point on the edge of greatest latitude of a closed square is inside
C16_Witness ==
    /\ square_call
    /\ Len(request.polygon) = 5
    /\ request.point = <<SquareSide, 2>>
    /\ result.value = TRUE

\* C17: in point_in_polygon an edge whose endpoints have equal longitude
\* never toggles the inside flag, and x_inters is never read in an
\* iteration that did not assign it.
C17_EqualLongitudeEdges ==
    called("point_in_polygon") =>
        LET run == point_in_polygon_run(request.point, request.polygon)
        IN  /\ run.equal_lng_toggles = 0
            /\ run.stale_reads = 0
            /\ run.error # "UnboundLocalError"

\* the point lies at the longitude of an edge of equal longitudes and not
\* above it, and the call returned
C17_Witness ==
    /\ called("point_in_polygon")
    /\ outcome = "returned"
    /\ \E k \in 1..Len(request.polygon) :
         LET p1 == request.polygon[k]
             p2 == request.polygon[(k % Len(request.polygon)) + 1]
         IN  /\ p1[2] = p2[2]
             /\ p1[1] # p2[1]
             /\ request.point[2] = p1[2]
             /\ request.point[1] <= Max(p1[1], p2[1])

----------------------------------------------------------------------------
(***************************************************************************)
(* analyze_coverage and POST /analysis/coverage-heatmap.                   *)
(*                                                                         *)
(* Fixed-point units:                                                      *)
(*   latitude, longitude of vertices, grid points and towers : 1/111000    *)
(*       degree, which generate_grid and calc_polygon_area_km2 take for    *)
(*       one metre (111 km per degree); grid_step_km is in the same unit   *)
(*   areas inside the analysis : m2; in the statistics 1e-2 km2            *)
(*   signals inside the analysis : 1e-3 dBm; returned ones 1e-1 dBm        *)
(*   coverage_pct : 1e-1 percent                                           *)
(* The polygons and towers of the model lie within a few kilometres of     *)
(* (0, 0), where cos(latitude) is 1 to 8 digits and the haversine distance *)
(* is the plane distance times 111.195 / 111; distances are whole metres.  *)
(* The optional operator filter is "" when it is None or empty.  An absent *)
(* average (None) is the empty sequence, a present one <<value>>.          *)
(***************************************************************************)

CoverageScale == 111000

\* round(num / den) for den > 0; a quotient half way between two integers
\* goes the way of tie_up
round_ratio(num, den, tie_up) ==
    LET q == num \div den
        r == num % den
    IN  IF 2 * r < den THEN q
        ELSE IF 2 * r > den THEN q + 1
        ELSE IF tie_up THEN q + 1 ELSE q

(* CoverageAnalyzer.get_polygon_bounds: min() of an empty list raises      *)
(* ValueError                                                              *)
get_polygon_bounds(polygon) ==
    IF polygon = <<>> THEN Raised("ValueError")
    ELSE Returned([min_lat |-> MinOf(lats_of(polygon)),
                   max_lat |-> MaxOf(lats_of(polygon)),
                   min_lng |-> MinOf(lngs_of(polygon)),
                   max_lng |-> MaxOf(lngs_of(polygon))])

(* CoverageAnalyzer.calc_polygon_area_km2, in m2: the shoelace formula *)
calc_polygon_area_km2(polygon) ==
    LET n == Len(polygon)
        terms == [i \in 1..n |->
                     polygon[i][2] * polygon[(i % n) + 1][1]
                     - polygon[(i % n) + 1][2] * polygon[i][1]]
    IN  IF n = 0 THEN Raised("ZeroDivisionError")
        ELSE Returned(Abs(SumSeq(terms)) \div 2)

(* CoverageAnalyzer.generate_grid for grid_step_km > 0: rows of ascending  *)
(* latitude, each of ascending longitude, from the minimum by whole steps  *)
(* while not beyond the maximum                                            *)
generate_grid(bounds, grid_step_km) ==
    LET rows == (bounds.max_lat - bounds.min_lat) \div grid_step_km + 1
        cols == (bounds.max_lng - bounds.min_lng) \div grid_step_km + 1
    IN  [k \in 1..(rows * cols) |->
            <<bounds.min_lat + ((k - 1) \div cols) * grid_step_km,
              bounds.min_lng + ((k - 1) % cols) * grid_step_km>>]

\* the square root of n >= 0 rounded to the nearest integer
sqrt_nearest(n) ==
    LET r == sqrt(n).value
    IN  IF n - r * r > r THEN r + 1 ELSE r

(* RFCalculations.calculate_distance, in metres: R = 6371 km gives         *)
(* 111.195 km per degree                                                   *)
calculate_distance(lat1, lon1, lat2, lon2) ==
    LET plane == sqrt_nearest((lat2 - lat1) * (lat2 - lat1) + (lon2 - lon1) * (lon2 - lon1))
    IN  plane + Nearest(plane * (MILLIMETRES_PER_MICRODEGREE - CoverageScale), CoverageScale)

\* lines 158-162 without the filter of line 161
query_towers_unfiltered(db, operator) == db

\* analyze_coverage lines 158-162: the towers of the operator, all towers
\* without a filter
query_towers(db, operator) ==
    IF operator # "" THEN SelectSeq(db, LAMBDA t : t.operator = operator) ELSE db

\* analyze_coverage lines 193-207: the distance to the closest tower
min_distance(point, tower_rows) ==
    MinOf({ calculate_distance(point[1], point[2], tower_rows[k].latitude,
                               tower_rows[k].longitude) : k \in 1..Len(tower_rows) })

\* analyze_coverage lines 209-217: the signal of a grid point, 1e-3 dBm
signal_at(point, tower_rows) ==
    estimate_signal_from_tower(min_distance(point, tower_rows), 43 * DbScale, 15 * DbScale,
                               0, 2100, DEFAULT_TX_HEIGHT, DEFAULT_RX_HEIGHT).value

\* analyze_coverage lines 219-227
quality_of(signal_dbm) ==
    IF signal_dbm >= 0 - 70 * DbScale THEN "excellent"
    ELSE IF signal_dbm >= 0 - 85 * DbScale THEN "good"
    ELSE IF signal_dbm >= 0 - 95 * DbScale THEN "fair"
    ELSE "poor"

\* line 230 with <= for >=
is_covered_below(signal_dbm, threshold_dbm) == signal_dbm <= threshold_dbm

\* analyze_coverage line 230
is_covered(signal_dbm, threshold_dbm) == signal_dbm >= threshold_dbm

\* line 164 never taken
no_towers_never(tower_rows) == FALSE

\* analyze_coverage line 164: if not towers
no_towers(tower_rows) == tower_rows = <<>>

\* analyze_coverage lines 165-173
EMPTY_ANALYSIS ==
    [grid |-> <<>>,
     stats |-> [coverage_pct |-> 0, gap_area_km2 |-> 0, total_area_km2 |-> 0,
                avg_signal_dbm |-> <<>>]]

(* analyze_coverage lines 175-262, after the towers were found: polygon    *)
(* is not empty                                                            *)
analyze_grid(tower_rows, polygon, threshold_dbm, grid_step_km, tie_up) ==
    LET bounds == get_polygon_bounds(polygon).value
        total_area_km2 == calc_polygon_area_km2(polygon).value
        grid_points == generate_grid(bounds, grid_step_km)
        analyzed == IF tower_rows = <<>> THEN <<>>
                    ELSE SelectSeq(grid_points,
                                   LAMBDA p : point_in_polygon(p, polygon).value)
        signals == [k \in 1..Len(analyzed) |-> signal_at(analyzed[k], tower_rows)]
        signal_count == Len(analyzed)
        covered_count ==
            SumSeq([k \in 1..signal_count |->
                       IF is_covered(signals[k], threshold_dbm) THEN 1 ELSE 0])
        signal_sum == SumSeq(signals)
    IN  [grid |-> [k \in 1..signal_count |->
                      [lat |-> analyzed[k][1],
                       lng |-> analyzed[k][2],
                       signal_dbm |-> round_ratio(signals[k], DbScale \div 10, tie_up),
                       quality |-> quality_of(signals[k])]],
         stats |->
             [coverage_pct |->
                  IF signal_count = 0 THEN 0
                  ELSE round_ratio(covered_count * 1000, signal_count, tie_up),
              gap_area_km2 |->
                  IF signal_count = 0 THEN round_ratio(total_area_km2, 10000, tie_up)
                  ELSE round_ratio(total_area_km2 * (signal_count - covered_count),
                                   signal_count * 10000, tie_up),
              total_area_km2 |-> round_ratio(total_area_km2, 10000, tie_up),
              avg_signal_dbm |->
                  IF signal_count = 0 THEN <<>>
                  ELSE <<round_ratio(signal_sum, signal_count * (DbScale \div 10), tie_up)>>,
              grid_points_analyzed |-> signal_count]]

(* CoverageAnalyzer.analyze_coverage *)
analyze_coverage(db, polygon, operator, threshold_dbm, grid_step_km, tie_up) ==
    LET tower_rows == query_towers(db, operator)
    IN  IF no_towers(tower_rows) THEN Returned(EMPTY_ANALYSIS)
        ELSE IF polygon = <<>> THEN get_polygon_bounds(polygon)
        ELSE Returned(analyze_grid(tower_rows, polygon, threshold_dbm, grid_step_km, tie_up))

\* CoverageAnalysisRequest.threshold_dbm: Field(-85, ge=-120, le=0)
valid_threshold(threshold_dbm) ==
    threshold_dbm >= 0 - 120 * DbScale /\ threshold_dbm <= 0

\* analyze_coverage_heatmap line 42
too_few_vertices(polygon) == polygon = <<>> \/ Len(polygon) < 3

\* analyze_coverage_heatmap lines 49-52: the polygon is closed in place
auto_closed(polygon) ==
    IF polygon[1] # polygon[Len(polygon)] THEN closed(polygon) ELSE polygon

\* analyze_coverage_heatmap line 59: request.threshold_dbm or -85
threshold_or_default(threshold_dbm) ==
    IF threshold_dbm = 0 THEN 0 - 85 * DbScale ELSE threshold_dbm

\* analyze_coverage_heatmap line 60: the 100 m grid
GRID_STEP_KM == 100

----------------------------------------------------------------------------
(* Calls of analyze_coverage and of the endpoint *)

\* a square of 250 m with one corner at (0, 0): its grid points are at 0,
\* 100 and 200 m, of which those at 100 and 200 are inside
COVERAGE_SQUARE == << <<0, 0>>, <<0, 250>>, <<250, 250>>, <<250, 0>> >>

\* polygons of 0, 1 and 2 vertices, the square open and closed, a triangle,
\* and a square of 50 m that holds no grid point
CoveragePolygons ==
    { <<>>,
      << <<0, 0>> >>,
      << <<0, 0>>, <<250, 250>> >>,
      COVERAGE_SQUARE,
      closed(COVERAGE_SQUARE),
      << <<0, 0>>, <<0, 250>>, <<250, 0>> >>,
      << <<0, 0>>, <<0, 50>>, <<50, 50>>, <<50, 0>> >> }

\* tower positions: 5 m from the grid point (200, 200), and at the
\* distances where the signal passes -70, -85 and -95 dBm (about 0.6, 1.6
\* and 3.0 km)
Tower(latitude, longitude, operator) ==
    [latitude |-> latitude, longitude |-> longitude, operator |-> operator]

TowerRows ==
    { Tower(200, 205, "Claro"), Tower(150, 750, "Vivo"), Tower(150, 1675, "Claro"),
      Tower(150, 3200, "Vivo") }

\* largest number of rows of the towers table
MaxTowers == 2

TowerTables == UNION { [1..n -> TowerRows] : n \in 0..MaxTowers }

OperatorFilters == {"", "Claro", "TIM"}

\* 1e-3 dBm: the band limits, the ends of the schema's range, and one value
\* beyond each end
Thresholds ==
    { 0 - 121 * DbScale, 0 - 120 * DbScale, 0 - 95 * DbScale, 0 - 85 * DbScale,
      0 - 70 * DbScale, 0, DbScale }

CoverageRequests ==
    [polygon : CoveragePolygons, operator : OperatorFilters,
     threshold_dbm : Thresholds, grid_step_km : {GRID_STEP_KM}]

InitCoverage ==
    /\ request \in CoverageRequests
    /\ towers \in TowerTables
    /\ pc = "ready"
    /\ outcome = "none"
    /\ clusters = <<>>
    /\ recommendations = <<>>
    /\ response = NoResponse
    /\ engine_calls = 0
    /\ result = NoResult
    /\ calls = <<>>

(* a direct call of CoverageAnalyzer.analyze_coverage *)
AnalyzeCoverage ==
    \E tie_up \in BOOLEAN :
        Called("analyze_coverage",
               analyze_coverage(towers, request.polygon, request.operator,
                                request.threshold_dbm, request.grid_step_km, tie_up))

(* POST /analysis/coverage-heatmap: request validation by the schema *)
PostCoverageInvalid ==
    /\ pc = "ready"
    /\ ~valid_threshold(request.threshold_dbm)
    /\ pc' = "analyze_coverage_heatmap"
    /\ outcome' = "http"
    /\ response' = [status |-> 422]
    /\ UNCHANGED <<request, clusters, recommendations, engine_calls, result, towers, calls>>

(* analyze_coverage_heatmap lines 42-46: the 400 answer *)
PostCoverageRejected ==
    /\ pc = "ready"
    /\ valid_threshold(request.threshold_dbm)
    /\ too_few_vertices(request.polygon)
    /\ pc' = "analyze_coverage_heatmap"
    /\ outcome' = "http"
    /\ response' = [status |-> 400]
    /\ UNCHANGED <<request, clusters, recommendations, engine_calls, result, towers, calls>>

\* analyze_coverage_heatmap line 63: the answer built from the analysis,
\* a 500 when the analysis raised
heatmap_response(analysis) ==
    IF analysis.error # "none" THEN [status |-> 500]
    ELSE [status |-> 200, grid |-> analysis.value.grid, stats |-> analysis.value.stats]

(* analyze_coverage_heatmap lines 49-63 *)
PostCoverageHeatmap ==
    /\ pc = "ready"
    /\ valid_threshold(request.threshold_dbm)
    /\ ~too_few_vertices(request.polygon)
    /\ request' = [request EXCEPT !.polygon = auto_closed(request.polygon)]
    /\ \E tie_up \in BOOLEAN :
         response' = heatmap_response(
                         analyze_coverage(towers, auto_closed(request.polygon),
                                          request.operator,
                                          threshold_or_default(request.threshold_dbm),
                                          GRID_STEP_KM, tie_up))
    /\ pc' = "analyze_coverage_heatmap"
    /\ outcome' = "http"
    /\ UNCHANGED <<clusters, recommendations, engine_calls, result, towers, calls>>

NextCoverage ==
    \/ AnalyzeCoverage
    \/ PostCoverageInvalid
    \/ PostCoverageRejected
    \/ PostCoverageHeatmap

SpecCoverage == InitCoverage /\ [][NextCoverage]_vars

----------------------------------------------------------------------------
\* the towers the call of the request analyzes
matching_towers == query_towers(towers, request.operator)

direct_analysis == called("analyze_coverage")

\* C18: analyze_coverage, when no tower matches the operator filter or no
\* tower exists, returns without error an empty grid and the statistics
\* coverage_pct = 0, gap_area_km2 = 0, total_area_km2 = 0 and no average
\* signal, whatever the polygon.
C18_NoTowersEmptyAnalysis ==
    (direct_analysis /\ matching_towers = <<>>) =>
        /\ outcome = "returned"
        /\ result.value.grid = <<>>
        /\ result.value.stats.coverage_pct = 0
        /\ result.value.stats.gap_area_km2 = 0
        /\ result.value.stats.total_area_km2 = 0
        /\ result.value.stats.avg_signal_dbm = <<>>

\* the table has towers, none of the operator asked for, and the polygon
\* is the square
C18_Witness ==
    /\ direct_analysis
    /\ towers # <<>>
    /\ matching_towers = <<>>
    /\ request.polygon = COVERAGE_SQUARE
    /\ outcome = "returned"
    /\ result.value.grid = <<>>

heatmap_posted == called("analyze_coverage_heatmap") /\ response.status # 422

\* C19: a polygon with fewer than 3 vertices is always rejected with an
\* error and never yields a grid or statistics, through
\* POST /analysis/coverage-heatmap and in a direct call of
\* analyze_coverage, whether or not a tower matches.
C19_FewVerticesRejected ==
    /\ (heatmap_posted /\ Len(request.polygon) < 3) => response.status = 400
    /\ (direct_analysis /\ Len(request.polygon) < 3) => outcome = "raised"

\* coverage_pct of the request's polygon and towers at another threshold
coverage_pct_at(threshold_dbm) ==
    analyze_coverage(towers, request.polygon, request.operator, threshold_dbm,
                     request.grid_step_km, TRUE).value.stats.coverage_pct

analysis_returned ==
    /\ direct_analysis
    /\ outcome = "returned"
    /\ request.polygon # <<>>

\* C20 as stated: for a fixed polygon and tower set and thresholds t1 > t2,
\* coverage_pct(t2) <= coverage_pct(t1).
C20_Original ==
    analysis_returned =>
        \A t2 \in Thresholds :
            request.threshold_dbm > t2 =>
                coverage_pct_at(t2) <= result.value.stats.coverage_pct

\* C20 amended: for a fixed polygon and tower set, coverage_pct never
\* decreases as threshold_dbm is relaxed to a more negative value: for
\* thresholds t1 > t2, coverage_pct(t2) >= coverage_pct(t1).
C20_CoverageGrowsAsThresholdFalls ==
    analysis_returned =>
        \A t2 \in Thresholds :
            request.threshold_dbm > t2 =>
                coverage_pct_at(t2) >= result.value.stats.coverage_pct

\* at -70 dBm half of the grid points are covered, at -85 dBm all of them
C20_Witness ==
    /\ analysis_returned
    /\ request.threshold_dbm = 0 - 70 * DbScale
    /\ result.value.stats.coverage_pct = 500
    /\ coverage_pct_at(0 - 85 * DbScale) = 1000

----------------------------------------------------------------------------
(* Interleaved invocations (specification SpecInterleaved).                *)
(* RecommendationEngine, CoverageAnalyzer and RFCalculations have no       *)
(* instance attributes (RecommendationEngine.__init__ is `pass`, the other *)
(* methods are static); rf_calc and coverage_analyzer are module-level     *)
(* instances of them.  request is the list of the invocations, one per     *)
(* call; calls[c] is the frame of call c: the line it has reached and its  *)
(* local variables.  A step of a call runs it up to its next loop          *)
(* iteration; between two steps any other call may run.                    *)

\* lines 196 (recommendations = []) and 183 (grid_results = []) with one
\* list object kept by the class and handed to every call
new_list_shared(frames, c) ==
    LET others == { d \in DOMAIN frames : d # c /\ frames[d].line = "loop" }
    IN  IF others = {} THEN <<>>
        ELSE LET d == CHOOSE d \in others : TRUE
             IN  IF frames[d].recommendations # <<>> THEN frames[d].recommendations
                 ELSE frames[d].grid_results

\* generate_recommendations line 196 and analyze_coverage line 183: a new
\* empty list in every call
new_list(frames, c) == <<>>

\* the frame of a call that has not run yet
NEW_FRAME ==
    [line |-> "call", clusters |-> <<>>, recommendations |-> <<>>, tower_rows |-> <<>>,
     grid_points |-> <<>>, grid_results |-> <<>>, signal_values |-> <<>>, next |-> 0,
     returned |-> NoResult]

\* a return statement: the frame keeps the returned value
return(frame, r) == [frame EXCEPT !.line = "done", !.returned = r]

(* generate_recommendations lines 189-196 *)
recommendations_begin(frames, c, gaps) ==
    IF gaps = <<>> THEN return(frames[c], Returned(<<>>))
    ELSE [frames[c] EXCEPT !.line = "loop",
                           !.clusters = cluster_gaps(gaps, CLUSTERING_RADIUS_KM),
                           !.recommendations = new_list(frames, c),
                           !.next = 1]

(* generate_recommendations lines 198-228: one iteration of the loop *)
recommendations_iteration(frame, gaps) ==
    [frame EXCEPT !.recommendations =
                      Append(@, make_recommendation(gaps, frame.clusters[frame.next],
                                                    frame.next - 1)),
                  !.next = @ + 1]

(* generate_recommendations lines 231-238 *)
recommendations_end(frame, max_recommendations) ==
    return(frame, Returned(top_n(sort_recommendations(frame.recommendations),
                                 max_recommendations)))

(* analyze_coverage lines 158-186 *)
coverage_begin(frames, c, db, polygon, operator, grid_step_km) ==
    LET tower_rows == query_towers(db, operator)
        bounds == get_polygon_bounds(polygon)
    IN  IF no_towers(tower_rows) THEN return(frames[c], Returned(EMPTY_ANALYSIS))
        ELSE IF bounds.error # "none" THEN return(frames[c], bounds)
        ELSE [frames[c] EXCEPT !.line = "loop",
                               !.tower_rows = tower_rows,
                               !.grid_points = generate_grid(bounds.value, grid_step_km),
                               !.grid_results = new_list(frames, c),
                               !.next = 1]

\* analyze_coverage lines 236-241: the entry of one grid point
grid_result(point, signal_dbm, tie_up) ==
    [lat |-> point[1],
     lng |-> point[2],
     signal_dbm |-> round_ratio(signal_dbm, DbScale \div 10, tie_up),
     quality |-> quality_of(signal_dbm)]

(* analyze_coverage lines 188-241: one iteration of the loop.  The         *)
(* counters covered_count, signal_sum and signal_count are kept as the     *)
(* list of the signals added so far                                        *)
coverage_iteration(frame, polygon, tie_up) ==
    LET point == frame.grid_points[frame.next]
        signal_dbm == signal_at(point, frame.tower_rows)
    IN  IF ~point_in_polygon(point, polygon).value
        THEN [frame EXCEPT !.next = @ + 1]
        ELSE [frame EXCEPT !.grid_results = Append(@, grid_result(point, signal_dbm, tie_up)),
                           !.signal_values = Append(@, signal_dbm),
                           !.next = @ + 1]

\* analyze_coverage lines 243-262
coverage_stats(signal_values, total_area_km2, threshold_dbm, tie_up) ==
    LET signal_count == Len(signal_values)
        covered_count ==
            Cardinality({ k \in 1..signal_count : is_covered(signal_values[k], threshold_dbm) })
    IN  [coverage_pct |->
             IF signal_count = 0 THEN 0
             ELSE round_ratio(covered_count * 1000, signal_count, tie_up),
         gap_area_km2 |->
             IF signal_count = 0 THEN round_ratio(total_area_km2, 10000, tie_up)
             ELSE round_ratio(total_area_km2 * (signal_count - covered_count),
                              signal_count * 10000, tie_up),
         total_area_km2 |-> round_ratio(total_area_km2, 10000, tie_up),
         avg_signal_dbm |->
             IF signal_count = 0 THEN <<>>
             ELSE <<round_ratio(SumSeq(signal_values), signal_count * (DbScale \div 10),
                                tie_up)>>,
         grid_points_analyzed |-> signal_count]

(* analyze_coverage lines 243-262 *)
coverage_end(frame, polygon, threshold_dbm, tie_up) ==
    return(frame, Returned([grid |-> frame.grid_results,
                            stats |-> coverage_stats(frame.signal_values,
                                                     calc_polygon_area_km2(polygon).value,
                                                     threshold_dbm, tie_up)]))

\* number of interleaved calls
NumCalls == 2

\* two gaps 1.9 km apart, and two 10 km apart
NEAR_GAPS == << GapZone(0, 0, 40000), GapZone(0, 17000, 80000) >>

FAR_GAPS == << GapZone(0, 0, 40000), GapZone(0, 90000, 80000) >>

COVERAGE_TRIANGLE == << <<0, 0>>, <<0, 250>>, <<250, 0>> >>

\* the invocations: the function and its arguments.  tie_up is the
\* direction in which the floats of the call round a tie, a property of
\* the arguments
Invocations ==
    { [name |-> "generate_recommendations", gaps |-> g, max_recommendations |-> m] :
          g \in {NEAR_GAPS, FAR_GAPS}, m \in {1} }
    \cup { [name |-> "generate_recommendations", gaps |-> <<>>, max_recommendations |-> 5] }
    \cup { [name |-> "analyze_coverage", polygon |-> p, operator |-> o,
            threshold_dbm |-> 0 - 85 * DbScale, grid_step_km |-> GRID_STEP_KM,
            tie_up |-> TRUE] :
               p \in {COVERAGE_TRIANGLE}, o \in {"", "Claro"} }
    \cup { [name |-> "estimate_signal_from_tower", distance_m |-> d] : d \in {5, 1000} }

InterleavedTowers ==
    { <<>>, << Tower(150, 750, "Vivo") >>,
      << Tower(150, 750, "Vivo"), Tower(200, 205, "Claro") >> }

InitInterleaved ==
    /\ request \in [1..NumCalls -> Invocations]
    /\ towers \in InterleavedTowers
    /\ calls = [c \in 1..NumCalls |-> NEW_FRAME]
    /\ pc = "ready"
    /\ outcome = "none"
    /\ clusters = <<>>
    /\ recommendations = <<>>
    /\ response = NoResponse
    /\ engine_calls = 0
    /\ result = NoResult

\* a step of call c: its frame changes, nothing else does
Step(c, name, line, frame) ==
    /\ request[c].name = name
    /\ calls[c].line = line
    /\ calls' = [calls EXCEPT ![c] = frame]
    /\ UNCHANGED <<request, pc, outcome, clusters, recommendations, response,
                   engine_calls, result, towers>>

RecommendationsBegin ==
    \E c \in DOMAIN calls :
        Step(c, "generate_recommendations", "call",
             recommendations_begin(calls, c, request[c].gaps))

RecommendationsIteration ==
    \E c \in DOMAIN calls :
        /\ calls[c].next <= Len(calls[c].clusters)
        /\ Step(c, "generate_recommendations", "loop",
                recommendations_iteration(calls[c], request[c].gaps))

RecommendationsEnd ==
    \E c \in DOMAIN calls :
        /\ calls[c].next > Len(calls[c].clusters)
        /\ Step(c, "generate_recommendations", "loop",
                recommendations_end(calls[c], request[c].max_recommendations))

CoverageBegin ==
    \E c \in DOMAIN calls :
        Step(c, "analyze_coverage", "call",
             coverage_begin(calls, c, towers, request[c].polygon, request[c].operator,
                            request[c].grid_step_km))

CoverageIteration ==
    \E c \in DOMAIN calls :
        /\ calls[c].next <= Len(calls[c].grid_points)
        /\ Step(c, "analyze_coverage", "loop",
                coverage_iteration(calls[c], request[c].polygon, request[c].tie_up))

CoverageEnd ==
    \E c \in DOMAIN calls :
        /\ calls[c].next > Len(calls[c].grid_points)
        /\ Step(c, "analyze_coverage", "loop",
                coverage_end(calls[c], request[c].polygon, request[c].threshold_dbm,
                             request[c].tie_up))

(* rf_calc.estimate_signal_from_tower with the defaults of its signature *)
SignalCall ==
    \E c \in DOMAIN calls :
        Step(c, "estimate_signal_from_tower", "call",
             return(calls[c],
                    estimate_signal_from_tower(request[c].distance_m, 43 * DbScale,
                                               15 * DbScale, 0, 2100, DEFAULT_TX_HEIGHT,
                                               DEFAULT_RX_HEIGHT)))

NextInterleaved ==
    \/ RecommendationsBegin
    \/ RecommendationsIteration
    \/ RecommendationsEnd
    \/ CoverageBegin
    \/ CoverageIteration
    \/ CoverageEnd
    \/ SignalCall

SpecInterleaved == InitInterleaved /\ [][NextInterleaved]_vars

\* what invocation inv returns when it runs alone
alone(inv) ==
    IF inv.name = "generate_recommendations"
    THEN Returned(generate_recommendations(inv.gaps, inv.max_recommendations))
    ELSE IF inv.name = "analyze_coverage"
    THEN analyze_coverage(towers, inv.polygon, inv.operator, inv.threshold_dbm,
                          inv.grid_step_km, inv.tie_up)
    ELSE estimate_signal_from_tower(inv.distance_m, 43 * DbScale, 15 * DbScale, 0, 2100,
                                    DEFAULT_TX_HEIGHT, DEFAULT_RX_HEIGHT)

interleaved == calls # <<>>

\* C21: when calls of generate_recommendations, analyze_coverage and the
\* RF functions are interleaved in any order, each call returns what it
\* returns when run alone, and no step of a call changes the input gaps,
\* polygon or tower records.
C21_CallsIndependent ==
    /\ [](interleaved =>
            \A c \in DOMAIN calls :
                calls[c].line = "done" => calls[c].returned = alone(request[c]))
    /\ [][interleaved => (request' = request /\ towers' = towers)]_vars

\* two calls of generate_recommendations with different gaps are interleaved:
\* the first has returned while the second is inside its loop, one of its
\* two recommendations made
C21_Witness ==
    /\ interleaved
    /\ request[1].name = "generate_recommendations"
    /\ request[2].name = "generate_recommendations"
    /\ request[1].gaps = NEAR_GAPS
    /\ request[2].gaps = FAR_GAPS
    /\ calls[1].line = "done"
    /\ Len(calls[1].returned.value) = 1
    /\ calls[2].line = "loop"
    /\ Len(calls[2].recommendations) = 1

----------------------------------------------------------------------------
\* the band of a returned signal_dbm (0.1 dBm)
band_of(signal_dbm) ==
    IF signal_dbm >= 0 - 700 THEN "excellent"
    ELSE IF signal_dbm >= 0 - 850 THEN "good"
    ELSE IF signal_dbm >= 0 - 950 THEN "fair"
    ELSE "poor"

\* C22: every grid point returned by analyze_coverage carries the quality
\* of the band its returned signal_dbm falls in: excellent iff
\* signal_dbm >= -70, good iff -85 <= signal_dbm < -70, fair iff
\* -95 <= signal_dbm < -85, poor iff signal_dbm < -95.
C22_QualityOfReturnedSignal ==
    analysis_returned =>
        \A k \in 1..Len(result.value.grid) :
            result.value.grid[k].quality = band_of(result.value.grid[k].signal_dbm)

----------------------------------------------------------------------------
\* the analyzed points of the call whose signal reaches the threshold:
\* the grid points inside the polygon, and their signals before rounding
analyzed_points ==
    SelectSeq(generate_grid(get_polygon_bounds(request.polygon).value, request.grid_step_km),
              LAMBDA p : point_in_polygon(p, request.polygon).value)

covered_points ==
    { k \in 1..Len(analyzed_points) :
          signal_at(analyzed_points[k], matching_towers) >= request.threshold_dbm }

\* C23: in every result of analyze_coverage, coverage_pct = 100 x (analyzed
\* points with signal >= threshold_dbm) / (analyzed points) and lies in
\* [0, 100], gap_area_km2 = total_area_km2 x (1 - coverage_pct/100) and
\* lies in [0, total_area_km2], grid_points_analyzed equals the length of
\* the returned grid, and when no grid point falls inside the polygon
\* coverage_pct is 0 and the average signal is absent.
C23_Statistics ==
    analysis_returned =>
        LET stats == result.value.stats
            grid == result.value.grid
        IN  /\ stats.coverage_pct >= 0
            /\ stats.coverage_pct <= 1000
            /\ stats.gap_area_km2 >= 0
            /\ stats.gap_area_km2 <= stats.total_area_km2
            /\ stats.gap_area_km2 * 1000 = stats.total_area_km2 * (1000 - stats.coverage_pct)
            /\ "grid_points_analyzed" \in DOMAIN stats
            /\ stats.grid_points_analyzed = Len(grid)
            /\ matching_towers # <<>> =>
                 /\ Len(grid) = Len(analyzed_points)
                 /\ stats.coverage_pct * Len(grid) = 1000 * Cardinality(covered_points)
            /\ grid = <<>> =>
                 /\ stats.coverage_pct = 0
                 /\ stats.avg_signal_dbm = <<>>

----------------------------------------------------------------------------
\* the rows of a towers table the filter selects, as a bag: row -> count
selected_rows(table, operator) ==
    [row \in TowerRows |->
        IF operator = "" \/ row.operator = operator
        THEN Cardinality({ k \in 1..Len(table) : table[k] = row })
        ELSE 0]

\* the results of the call of the request on another towers table
results_on(table) ==
    { analyze_coverage(table, request.polygon, request.operator, request.threshold_dbm,
                       request.grid_step_km, tie_up) : tie_up \in BOOLEAN }

\* C24: the signal of each analyzed grid point comes from the minimum
\* distance over exactly the towers whose operator equals the filter (all
\* towers without a filter): a towers table that holds the same towers of
\* the filtered operator, in any order and with any towers of other
\* operators, gives the same grid and statistics.
C24_OnlyFilteredTowers ==
    direct_analysis =>
        \A table \in TowerTables :
            selected_rows(table, request.operator) = selected_rows(towers, request.operator)
                => result \in results_on(table)

\* the filter is Claro and the table holds a Vivo tower before the Claro
\* tower; the grid was analyzed
C24_Witness ==
    /\ direct_analysis
    /\ request.operator = "Claro"
    /\ request.polygon = COVERAGE_SQUARE
    /\ towers = << Tower(150, 750, "Vivo"), Tower(200, 205, "Claro") >>
    /\ outcome = "returned"
    /\ Len(result.value.grid) = 4

----------------------------------------------------------------------------
(* The loops of CoverageAnalyzer.generate_grid, statement by statement     *)
(* (specifications SpecGrid and SpecGridFair).  calls[1] is the frame of   *)
(* the call: the line it has reached, lat, lng and grid.  At the equator   *)
(* lat_step_deg and lng_step_deg are both grid_step_km / 111, in the unit  *)
(* of the model grid_step_km itself.                                       *)

\* the model keeps the first MaxGridPoints points of a longer list
MaxGridPoints == 10

\* generate_grid line 131: grid.append((lat, lng))
grid_append(grid, point) ==
    IF Len(grid) < MaxGridPoints THEN Append(grid, point) ELSE grid

\* limits of the bounding boxes, min above max included
GridLimits == {0, 100, 250}

\* grid_step_km in metres
GridSteps == {0, 100, 125}

GridRequests ==
    [bounds : [min_lat : GridLimits, max_lat : GridLimits,
               min_lng : GridLimits, max_lng : GridLimits],
     grid_step_km : GridSteps]

InitGrid == Start(GridRequests)

\* a statement of generate_grid: the frame changes
GridStatement(line, frame) ==
    /\ pc = "generate_grid"
    /\ calls[1].line = line
    /\ calls' = <<frame>>
    /\ UNCHANGED <<request, pc, outcome, clusters, recommendations, response,
                   engine_calls, result, towers>>

(* generate_grid lines 117-127 *)
GridBegin ==
    /\ pc = "ready"
    /\ pc' = "generate_grid"
    /\ calls' = << [line |-> "while lat", lat |-> request.bounds.min_lat,
                    lng |-> request.bounds.min_lng, grid |-> <<>>] >>
    /\ UNCHANGED <<request, outcome, clusters, recommendations, response,
                   engine_calls, result, towers>>

(* lines 128-129: the test of the outer loop passes *)
GridRow ==
    /\ calls # <<>>
    /\ calls[1].lat <= request.bounds.max_lat
    /\ GridStatement("while lat", [calls[1] EXCEPT !.line = "while lng",
                                                   !.lng = request.bounds.min_lng])

(* lines 128 and 135: the test of the outer loop fails, return grid *)
GridReturn ==
    /\ pc = "generate_grid"
    /\ calls[1].line = "while lat"
    /\ calls[1].lat > request.bounds.max_lat
    /\ calls' = << [calls[1] EXCEPT !.line = "done"] >>
    /\ result' = Returned(calls[1].grid)
    /\ outcome' = "returned"
    /\ UNCHANGED <<request, pc, clusters, recommendations, response, engine_calls, towers>>

(* line 130: the test of the inner loop passes *)
GridPoint ==
    /\ calls # <<>>
    /\ calls[1].lng <= request.bounds.max_lng
    /\ GridStatement("while lng", [calls[1] EXCEPT !.line = "append"])

(* lines 131-132 *)
GridAppend ==
    /\ calls # <<>>
    /\ GridStatement("append",
                     [calls[1] EXCEPT !.line = "while lng",
                                      !.grid = grid_append(@, <<calls[1].lat, calls[1].lng>>),
                                      !.lng = @ + request.grid_step_km])

(* lines 130 and 133: the test of the inner loop fails *)
GridRowEnd ==
    /\ calls # <<>>
    /\ calls[1].lng > request.bounds.max_lng
    /\ GridStatement("while lng", [calls[1] EXCEPT !.line = "while lat",
                                                   !.lat = @ + request.grid_step_km])

NextGrid ==
    \/ GridBegin
    \/ GridRow
    \/ GridReturn
    \/ GridPoint
    \/ GridAppend
    \/ GridRowEnd

SpecGrid == InitGrid /\ [][NextGrid]_vars

\* a call that has begun runs on
SpecGridFair == SpecGrid /\ WF_vars(NextGrid)

grid_returned == called("generate_grid") /\ outcome = "returned"

\* the points are in row-major order: latitude ascending, longitude
\* ascending within a row
row_major(grid) ==
    \A k \in 1..(Len(grid) - 1) :
        \/ grid[k][1] < grid[k + 1][1]
        \/ (grid[k][1] = grid[k + 1][1] /\ grid[k][2] < grid[k + 1][2])

within_bounds(grid, bounds) ==
    \A k \in 1..Len(grid) :
        /\ bounds.min_lat <= grid[k][1] /\ grid[k][1] <= bounds.max_lat
        /\ bounds.min_lng <= grid[k][2] /\ grid[k][2] <= bounds.max_lng

\* C25: generate_grid terminates and returns a finite list for every
\* bounding box and every grid_step_km; the points are in row-major order,
\* every point lies within the bounds, and the first point is
\* (min_lat, min_lng) when min <= max.
C25_GridTerminates ==
    /\ <>grid_returned
    /\ [](grid_returned =>
            /\ row_major(result.value)
            /\ within_bounds(result.value, request.bounds)
            /\ (request.bounds.min_lat <= request.bounds.max_lat
                /\ request.bounds.min_lng <= request.bounds.max_lng)
               => /\ result.value # <<>>
                  /\ result.value[1] = <<request.bounds.min_lat, request.bounds.min_lng>>)

----------------------------------------------------------------------------
\* the clusters that hold gap j
clusters_of(j) == { c \in 1..Len(clusters) : j \in index_set(clusters[c]) }

clustered == engine_ran \/ (called("get_tower_recommendations") /\ response.status = 200)

\* C26: cluster_gaps partitions its input: every input gap (by index) is in
\* exactly one cluster, once; no cluster is empty; the cluster ids 0..k-1
\* follow the positions of the seeds; the gap_count values of the clusters
\* add up to the number of input gaps.
C26_ClustersPartition ==
    clustered =>
        /\ \A j \in 1..Len(gaps_in) : Cardinality(clusters_of(j)) = 1
        /\ \A c \in 1..Len(clusters) :
             /\ clusters[c] # <<>>
             /\ Cardinality(index_set(clusters[c])) = Len(clusters[c])
             /\ index_set(clusters[c]) \subseteq 1..Len(gaps_in)
        /\ \A c \in 1..(Len(clusters) - 1) : clusters[c][1] < clusters[c + 1][1]
        /\ SumSeq([c \in 1..Len(clusters) |-> Len(clusters[c])]) = Len(gaps_in)
        /\ \A k \in 1..Len(recommendations) :
             /\ recommendations[k].cluster_id \in 0..(Len(clusters) - 1)
             /\ recommendations[k].gap_count =
                  Len(clusters[recommendations[k].cluster_id + 1])

\* three gaps in two clusters, the second cluster seeded between the
\* members of the first
C26_Witness ==
    /\ pc = "generate_recommendations"
    /\ Len(gaps_in) = 3
    /\ clusters = << <<1, 3>>, <<2>> >>
    /\ Len(recommendations) = 2
    /\ recommendations[1].gap_count + recommendations[2].gap_count = 3

----------------------------------------------------------------------------
\* C27: the list generate_recommendations returns is non-increasing in
\* score over its whole length, and recommendations with equal score keep
\* the order in which their clusters were created (seed order).
C27_ScoreNonIncreasing ==
    pc = "generate_recommendations" =>
        \A k \in 1..(Len(recommendations) - 1) :
            \/ recommendations[k].score > recommendations[k + 1].score
            \/ /\ recommendations[k].score = recommendations[k + 1].score
               /\ recommendations[k].cluster_id < recommendations[k + 1].cluster_id

\* three clusters: the second has the highest score and comes first, the
\* first and the third have equal scores and keep their order
C27_Witness ==
    /\ pc = "generate_recommendations"
    /\ Len(recommendations) = 3
    /\ recommendations[1].cluster_id = 1
    /\ recommendations[2].cluster_id = 0
    /\ recommendations[3].cluster_id = 2
    /\ recommendations[1].priority = "medium"
    /\ recommendations[2].priority = "low"
    /\ recommendations[2].score = recommendations[3].score

----------------------------------------------------------------------------
\* the statistics of the analysis of the request's polygon at a threshold
stats_at(threshold_dbm) ==
    { analyze_coverage(towers, request.polygon, request.operator, threshold_dbm,
                       GRID_STEP_KM, tie_up).value.stats : tie_up \in BOOLEAN }

heatmap_answered == heatmap_posted /\ response.status = 200

\* C28: POST /analysis/coverage-heatmap runs the analysis with exactly the
\* threshold_dbm of the request, for every value the schema accepts
\* (-120 <= threshold_dbm <= 0); -85 is used only when the field is omitted.
C28_ThresholdOfRequest ==
    heatmap_answered => response.stats \in stats_at(request.threshold_dbm)


----------------------------------------------------------------------------
\* the result of the test on the polygon with its first vertex appended;
\* P + [P[0]] of the empty polygon raises IndexError at P[0], as the test does
on_closed(point, polygon) ==
    IF polygon = <<>> THEN point_in_polygon(point, polygon)
    ELSE point_in_polygon(point, closed(polygon))

\* C29: point_in_polygon(q, P) equals point_in_polygon(q, P + [P[0]]) for
\* every polygon P and point q, exception or value, and the polygon as the
\* endpoint closes it (first vertex appended only when first # last) gives
\* the same result, so closing never changes which points are analyzed.
C29_ClosingKeepsPointTests ==
    called("point_in_polygon") =>
        /\ result = on_closed(request.point, request.polygon)
        /\ request.polygon # <<>> =>
              /\ result = point_in_polygon(request.point, auto_closed(request.polygon))
              /\ auto_closed(auto_closed(request.polygon)) = auto_closed(request.polygon)

\* the point is inside an open triangle, which closing lengthens by one vertex
C29_Witness ==
    /\ called("point_in_polygon")
    /\ Len(request.polygon) = 3
    /\ auto_closed(request.polygon) = closed(request.polygon)
    /\ outcome = "returned"
    /\ result.value = TRUE
    /\ on_closed(request.point, request.polygon).value = TRUE


----------------------------------------------------------------------------
(* Gaps on both sides of the meridian of 180 degrees *)

\* longitudes of the gaps, micro-degrees: 5000 is 556 m from the meridian,
\* 15000 is 1668 m; the schema puts no range on a longitude
MeridianLongitudes == {180000000 - 15000, 180000000 - 5000, 5000 - 180000000, 0 - 180000000}

MeridianZones == { GapZone(0, lng, 1000) : lng \in MeridianLongitudes }

MeridianLists == UNION { [1..n -> MeridianZones] : n \in 0..MaxGaps }

MeridianRequests ==
    { [gaps |-> g, max_recommendations |-> m] : g \in MeridianLists, m \in {5, 21} }

InitMeridian == Start(MeridianRequests)

SpecMeridian == InitMeridian /\ [][Next]_vars

\* the gap that seeded the cluster of a recommendation
seed_of(recommendation) == gaps_in[clusters[recommendation.cluster_id + 1][1]]

distance_to_seed(recommendation) ==
    haversine_distance(seed_of(recommendation).latitude, seed_of(recommendation).longitude,
                       recommendation.latitude, recommendation.longitude)

\* C30: the position of every recommendation, the mean of the latitudes and
\* of the longitudes of the members of its cluster, is within the 2 km
\* clustering radius of the gap that seeded the cluster.
C30_CentroidNearSeed ==
    engine_ran =>
        \A k \in 1..Len(recommendations) :
            within_radius(distance_to_seed(recommendations[k]), CLUSTERING_RADIUS_KM)

====
